---- MODULE Spec2Model ----
(***************************************************************************)
(* Model of src/gadget/ecc.rs: the EccInstructions trait (the instruction  *)
(* contract a chip implements) and the Scalar / Point / FixedPoint wrapper *)
(* types whose methods forward to it through a layouter.                   *)
(*                                                                         *)
(* A wrapper method runs in three steps so that calls of several threads   *)
(* interleave: the caller moves a layouter into the method (Invoke), the   *)
(* method issues the instruction call with `&mut layouter` (Forward), the  *)
(* chip returns and the method maps the result and returns (Complete).     *)
(***************************************************************************)
EXTENDS Integers, Sequences, FiniteSets, TLC

\* ---------------------------------------------------------------- bounds
\* Order of the (cyclic) curve group; the scalar field is 0..GroupOrder-1.
GroupOrder == 3
\* Rows each layouter instance can allocate.
Capacity == 3
\* Largest number of Point wrappers the circuit-building code keeps.
MaxPoints == 4

\* ------------------------------------------------------------ parameters
\* Two chip implementations over the same curve.
Chips == {"chipA", "chipB"}
\* Independent layouter (allocator) instances.
Layouters == {1, 2}
\* The chip each layouter instance is typed for: Layouter<EccChip>.
LayouterChip(l) == IF l = 1 THEN "chipA" ELSE "chipB"
\* Threads running circuit-building code.
Threads == {1, 2}
\* plonk::Error values a chip can return.
Errors == {"NotEnoughRowsAvailable", "SynthesisError"}

Group == 0 .. (GroupOrder - 1)
ScalarField == 0 .. (GroupOrder - 1)

VARIABLES
    points,       \* sequence of Point wrappers: [chip, inner]
    scalars,      \* sequence of Scalar wrappers: [chip, inner]
    fixedPoints,  \* sequence of FixedPoint wrappers: [chip, inner]
    origin,       \* origin[i]: the operation that produced points[i]
    live,         \* wrappers the circuit-building code can still use
    layouter,     \* layouter[l]: [chip, used]
    owner,        \* owner[l]: the thread whose call holds layouter l, or 0
    pc,           \* pc[t]: "idle", "forward" or "inChip"
    frame,        \* frame[t]: the wrapper invocation thread t is running
    last          \* what the most recent return of a wrapper method handed back

vars == <<points, scalars, fixedPoints, origin, live, layouter, owner, pc, frame, last>>

\* ---------------------------------------------------------------- values
\* A chip-native handle: the cell it names (region, row) and the value the
\* cell is assigned. A fixed point is a constant: it names no cell.
Handle(kind, region, row, val) ==
    [kind |-> kind, region |-> region, row |-> row, val |-> val]

NoHandle == Handle("none", 0, 0, 0)

Scalar(chip, inner) == [chip |-> chip, inner |-> inner]

Point(chip, inner) == [chip |-> chip, inner |-> inner]

FixedPoint(chip, inner) == [chip |-> chip, inner |-> inner]

NoPoint == Point("none", NoHandle)

\* Result<Self::Point, Error> of an instruction call.
Ok(h) == [ok |-> TRUE, handle |-> h, err |-> "none"]

Err(e) == [ok |-> FALSE, handle |-> NoHandle, err |-> e]

\* Result<Point<C, EccChip>, Error> of a wrapper method.
OkPoint(p) == [ok |-> TRUE, point |-> p, err |-> "none"]

ErrPoint(e) == [ok |-> FALSE, point |-> NoPoint, err |-> e]

\* The native curve coordinates a wrapper resolves to.
Resolve(w) == w.inner.val

NoFrame ==
    [method |-> "none", self |-> 0, arg |-> 0, lay |-> 0,
     call |-> [op |-> "none", args |-> <<>>], issued |-> 0]

\* What the most recent return handed back: the instruction call's result,
\* the method's result, the calls the method issued, the new wrapper's place.
NoLast ==
    [issued |-> 0, chipRes |-> Err("none"), ret |-> ErrPoint("none"), newId |-> 0]

\* ------------------------------------------------ the instruction contract
\* A chip whose doubling circuit returns its operand unchanged.
ChipValueBadDouble(call) ==
    CASE call.op = "add" -> (call.args[1].val + call.args[2].val) % GroupOrder
      [] call.op = "double" -> call.args[1].val
      [] call.op = "mul" -> (call.args[1].val * call.args[2].val) % GroupOrder
      [] call.op = "mul_fixed" -> (call.args[1].val * call.args[2].val) % GroupOrder

\* The value each instruction returns: a + b, [2] a, [scalar] base.
ChipValue(call) ==
    CASE call.op = "add" -> (call.args[1].val + call.args[2].val) % GroupOrder
      [] call.op = "double" -> (2 * call.args[1].val) % GroupOrder
      [] call.op = "mul" -> (call.args[1].val * call.args[2].val) % GroupOrder
      [] call.op = "mul_fixed" -> (call.args[1].val * call.args[2].val) % GroupOrder

\* Rows an instruction allocates: the chip's choice of circuit.
ChipCost(chip, op) ==
    IF chip = "chipA"
    THEN (IF op \in {"add", "mul"} THEN 2 ELSE 1)
    ELSE (IF op \in {"double", "mul_fixed"} THEN 2 ELSE 1)

\* The error a chip reports when the layouter cannot allocate its rows.
ChipError(chip) ==
    IF chip = "chipA" THEN "NotEnoughRowsAvailable" ELSE "SynthesisError"

\* An instruction call against layouter l: the result it returns.
ChipExec(l, call) ==
    LET lay == layouter[l]
        cost == ChipCost(lay.chip, call.op)
    IN IF lay.used + cost > Capacity
       THEN Err(ChipError(lay.chip))
       ELSE Ok(Handle("point", l, lay.used + cost, ChipValue(call)))

\* The layouter after the call: rows are taken on success only.
LayouterAfter(l, call) ==
    LET lay == layouter[l]
        cost == ChipCost(lay.chip, call.op)
    IN IF lay.used + cost > Capacity
       THEN lay
       ELSE [lay EXCEPT !.used = lay.used + cost]

\* ------------------------------------------------------ the wrapper methods
\* Point::add: EccChip::add(&mut layouter, &self.inner, &other.inner)
PointAddCall(self, other) ==
    [op |-> "add", args |-> <<self.inner, other.inner>>]

\* Point::double: EccChip::double(&mut layouter, &self.inner)
PointDoubleCall(self) ==
    [op |-> "double", args |-> <<self.inner>>]

\* Point::mul passing its operands in the order it names them (self, by).
PointMulCallSwapped(self, by) ==
    [op |-> "mul", args |-> <<self.inner, by.inner>>]

\* Point::mul forwarding to the instruction of the method above it.
PointMulCallAsDouble(self, by) ==
    [op |-> "double", args |-> <<self.inner>>]

\* Point::mul: EccChip::mul(&mut layouter, &by.inner, &self.inner)
PointMulCall(self, by) ==
    [op |-> "mul", args |-> <<by.inner, self.inner>>]

\* FixedPoint::mul: EccChip::mul_fixed(&mut layouter, &by.inner, &self.inner)
FixedPointMulCall(self, by) ==
    [op |-> "mul_fixed", args |-> <<by.inner, self.inner>>]

\* A mapping that reports every failure as one error kind of its own.
MapPointOwnError(res, chip) ==
    IF res.ok THEN OkPoint(Point(chip, res.handle)) ELSE ErrPoint("SynthesisError")

\* .map(|inner| Point { inner }): Ok is re-wrapped, Err passes through.
MapPoint(res, chip) ==
    IF res.ok THEN OkPoint(Point(chip, res.handle)) ELSE ErrPoint(res.err)

\* A method that issues the instruction call again when it failed.
AfterChipRetry(res) == IF res.ok THEN "idle" ELSE "forward"

\* Where the method goes once the instruction call has returned: it returns
\* to its caller, on Ok and on Err alike.
AfterChip(res) == "idle"

\* A signature that ties only the receiver to the layouter's chip.
SameChipReceiverOnly(l, w1, w2) == w1.chip = layouter[l].chip

\* The operands are taken by shared reference: a layouter typed
\* Layouter<EccChip> and wrappers typed <C, EccChip> of one EccChip.
SameChip(l, w1, w2) ==
    /\ w1.chip = layouter[l].chip
    /\ w2.chip = layouter[l].chip

\* A layouter handed out by shared reference: any call may take it.
ExclusiveShared(l) == TRUE

\* `mut layouter: impl Layouter<EccChip>` is taken by value and lent to the
\* chip as `&mut`: the call needs a layouter no other call holds.
Exclusive(l) == owner[l] = 0

\* A method that stores the returned handle into its receiver.
PointsAfterInPlace(ret, self) ==
    IF ret.ok THEN Append([points EXCEPT ![self].inner = ret.point.inner], ret.point)
    ELSE points

\* The Point wrappers after a method returned ret.
PointsAfter(ret, self) ==
    IF ret.ok THEN Append(points, ret.point) ELSE points

\* Methods that take their operands by value: the operands are consumed.
LiveAfterConsuming(ret, operands) ==
    IF ret.ok THEN (live \ operands) \cup {<<"point", Len(points) + 1>>}
    ELSE live \ operands

\* The wrappers the caller still has after a method that borrowed
\* `operands` returned: all it had, and the new Point on success.
LiveAfter(ret, operands) ==
    IF ret.ok THEN live \cup {<<"point", Len(points) + 1>>} ELSE live

\* ------------------------------------------------------------------ Init
Init ==
    \E p \in Group, s \in ScalarField :
        /\ points = <<Point("chipA", Handle("point", 0, 0, p)),
                      Point("chipB", Handle("point", 0, 0, p))>>
        /\ scalars = <<Scalar("chipA", Handle("scalar", 0, 0, s)),
                       Scalar("chipB", Handle("scalar", 0, 0, s))>>
        /\ fixedPoints = <<FixedPoint("chipA", Handle("fixed", 0, 0, p)),
                           FixedPoint("chipB", Handle("fixed", 0, 0, p))>>
        /\ origin = <<[method |-> "ctor", self |-> 0, arg |-> 0],
                      [method |-> "ctor", self |-> 0, arg |-> 0]>>
        /\ live = {<<"point", 1>>, <<"point", 2>>, <<"scalar", 1>>,
                   <<"scalar", 2>>, <<"fixed", 1>>, <<"fixed", 2>>}
        /\ layouter = [l \in Layouters |-> [chip |-> LayouterChip(l), used |-> 0]]
        /\ owner = [l \in Layouters |-> 0]
        /\ pc = [t \in Threads |-> "idle"]
        /\ frame = [t \in Threads |-> NoFrame]
        /\ last = NoLast

\* --------------------------------------------------------------- actions
\* The wrappers a running method borrows.
SelfRef(f) ==
    IF f.method = "FixedPoint.mul" THEN <<"fixed", f.self>> ELSE <<"point", f.self>>

ArgRef(f) ==
    IF f.method = "Point.add" THEN <<"point", f.arg>> ELSE <<"scalar", f.arg>>

Operands(f) ==
    IF f.method = "Point.double" THEN {SelfRef(f)} ELSE {SelfRef(f), ArgRef(f)}

\* The wrapper a running method was called on.
SelfWrapper(f) ==
    IF f.method = "FixedPoint.mul" THEN fixedPoints[f.self] ELSE points[f.self]

\* Thread t enters a method with layouter l.
Enter(t, l, method, self, arg, call) ==
    /\ pc[t] = "idle"
    /\ Exclusive(l)
    /\ Len(points) + Cardinality({u \in Threads : pc[u] # "idle"}) < MaxPoints
    /\ owner' = [owner EXCEPT ![l] = t]
    /\ pc' = [pc EXCEPT ![t] = "forward"]
    /\ frame' = [frame EXCEPT ![t] =
                    [method |-> method, self |-> self, arg |-> arg, lay |-> l,
                     call |-> call, issued |-> 0]]
    /\ UNCHANGED <<points, scalars, fixedPoints, origin, live, layouter, last>>

\* self.add(layouter, other)
InvokePointAdd(t, l, self, other) ==
    /\ <<"point", self>> \in live
    /\ <<"point", other>> \in live
    /\ SameChip(l, points[self], points[other])
    /\ Enter(t, l, "Point.add", self, other, PointAddCall(points[self], points[other]))

\* self.double(layouter)
InvokePointDouble(t, l, self) ==
    /\ <<"point", self>> \in live
    /\ SameChip(l, points[self], points[self])
    /\ Enter(t, l, "Point.double", self, 0, PointDoubleCall(points[self]))

\* self.mul(layouter, by)
InvokePointMul(t, l, self, by) ==
    /\ <<"point", self>> \in live
    /\ <<"scalar", by>> \in live
    /\ SameChip(l, points[self], scalars[by])
    /\ Enter(t, l, "Point.mul", self, by, PointMulCall(points[self], scalars[by]))

\* self.mul(layouter, by), self a FixedPoint
InvokeFixedPointMul(t, l, self, by) ==
    /\ <<"fixed", self>> \in live
    /\ <<"scalar", by>> \in live
    /\ SameChip(l, fixedPoints[self], scalars[by])
    /\ Enter(t, l, "FixedPoint.mul", self, by,
             FixedPointMulCall(fixedPoints[self], scalars[by]))

\* The method issues its instruction call: the chip starts work on the
\* layouter the method lends it.
Forward(t) ==
    /\ pc[t] = "forward"
    /\ pc' = [pc EXCEPT ![t] = "inChip"]
    /\ frame' = [frame EXCEPT ![t].issued = @ + 1]
    /\ UNCHANGED <<points, scalars, fixedPoints, origin, live, layouter, owner, last>>

\* The chip returns; the method maps the result and, when it returns to its
\* caller, drops the layouter.
Complete(t) ==
    /\ pc[t] = "inChip"
    /\ LET f == frame[t]
           res == ChipExec(f.lay, f.call)
           ret == MapPoint(res, SelfWrapper(f).chip)
           next == AfterChip(res)
       IN /\ layouter' = [layouter EXCEPT ![f.lay] = LayouterAfter(f.lay, f.call)]
          /\ pc' = [pc EXCEPT ![t] = next]
          /\ IF next = "idle"
             THEN /\ points' = PointsAfter(ret, f.self)
                  /\ origin' = IF Len(points') > Len(points)
                               THEN Append(origin, [method |-> f.method,
                                                    self |-> f.self, arg |-> f.arg])
                               ELSE origin
                  /\ live' = LiveAfter(ret, Operands(f))
                  /\ owner' = [owner EXCEPT ![f.lay] = 0]
                  /\ frame' = [frame EXCEPT ![t] = NoFrame]
                  /\ last' = [issued |-> f.issued, chipRes |-> res, ret |-> ret,
                              newId |-> IF ret.ok THEN Len(points) + 1 ELSE 0]
             ELSE UNCHANGED <<points, origin, live, owner, frame, last>>
    /\ UNCHANGED <<scalars, fixedPoints>>

Next ==
    \/ \E t \in Threads, l \in Layouters, self \in DOMAIN points, other \in DOMAIN points :
           InvokePointAdd(t, l, self, other)
    \/ \E t \in Threads, l \in Layouters, self \in DOMAIN points :
           InvokePointDouble(t, l, self)
    \/ \E t \in Threads, l \in Layouters, self \in DOMAIN points, by \in DOMAIN scalars :
           InvokePointMul(t, l, self, by)
    \/ \E t \in Threads, l \in Layouters, self \in DOMAIN fixedPoints, by \in DOMAIN scalars :
           InvokeFixedPointMul(t, l, self, by)
    \/ \E t \in Threads : Forward(t)
    \/ \E t \in Threads : Complete(t)

Spec == Init /\ [][Next]_vars

\* ---------------------------------------------------------------- claims
\* Thread t's method returns to its caller in this step.
Returns(t) == pc[t] = "inChip" /\ pc'[t] = "idle"

\* The wrapper a reference <<kind, id>> names.
Wrapper(ref) ==
    CASE ref[1] = "point" -> points[ref[2]]
      [] ref[1] = "scalar" -> scalars[ref[2]]
      [] ref[1] = "fixed" -> fixedPoints[ref[2]]

\* The instruction call the contract of each method names, stated from the
\* operands: the instruction and the handle in each argument position.
IsOneToOneForward(f) ==
    CASE f.method = "Point.add" ->
             /\ f.call.op = "add"
             /\ f.call.args = <<points[f.self].inner, points[f.arg].inner>>
      [] f.method = "Point.double" ->
             /\ f.call.op = "double"
             /\ f.call.args = <<points[f.self].inner>>
      [] f.method = "Point.mul" ->
             /\ f.call.op = "mul"
             /\ f.call.args[1] = scalars[f.arg].inner
             /\ f.call.args[2] = points[f.self].inner
      [] f.method = "FixedPoint.mul" ->
             /\ f.call.op = "mul_fixed"
             /\ f.call.args[1] = scalars[f.arg].inner
             /\ f.call.args[2] = fixedPoints[f.self].inner

\* C1: every wrapper method forwards one-to-one to its instruction, with
\* each operand's handle in the argument position the instruction gives it,
\* and when the instruction succeeds it returns a Point wrapping exactly the
\* handle the instruction returned, which is the one wrapper it adds.
C1_OneToOneForward ==
    [][\A t \in Threads : Returns(t) =>
          LET f == frame[t] IN
          /\ IsOneToOneForward(f)
          /\ last'.chipRes = ChipExec(f.lay, f.call)
          /\ last'.chipRes.ok =>
                /\ last'.ret.ok
                /\ last'.ret.point.inner = last'.chipRes.handle
                /\ points' = Append(points, last'.ret.point)]_vars

\* A Point.mul has returned the Point that wraps the handle of its call.
C1_Witness ==
    /\ last.ret.ok
    /\ last.newId \in DOMAIN points
    /\ origin[last.newId].method = "Point.mul"
    /\ points[last.newId].inner = last.chipRes.handle

\* C2: when the instruction call fails with error e the method returns
\* exactly e and no Point, and the method fails only when the call failed.
C2_ErrorUnchanged ==
    [][\A t \in Threads : Returns(t) =>
          /\ ~last'.chipRes.ok =>
                /\ last'.ret = ErrPoint(last'.chipRes.err)
                /\ last'.chipRes.err \in Errors
                /\ points' = points
          /\ ~last'.ret.ok => ~last'.chipRes.ok]_vars

\* A method has returned the chip's NotEnoughRowsAvailable.
C2_Witness ==
    /\ ~last.ret.ok
    /\ last.chipRes.err = "NotEnoughRowsAvailable"
    /\ last.ret.err = "NotEnoughRowsAvailable"

\* C3: one invocation of a wrapper method issues exactly one instruction
\* call, whether it succeeds or fails: while the call runs it is the only one
\* issued, and when it returns the method returns to its caller at once.
C3_NoRetry ==
    /\ [](\A t \in Threads : pc[t] = "inChip" => frame[t].issued = 1)
    /\ [][\A t \in Threads : (pc[t] = "inChip" /\ pc'[t] # "inChip") =>
             /\ pc'[t] = "idle"
             /\ last'.issued = 1]_vars

\* A method whose one instruction call failed has returned, and the layouter
\* it used is exhausted no further.
C3_Witness ==
    /\ ~last.chipRes.ok
    /\ last.chipRes.err = "SynthesisError"
    /\ last.issued = 1
    /\ \A t \in Threads : pc[t] = "idle"

\* C4 as claimed: once a method has returned, the operand wrappers passed to
\* it are no longer available to later operations.
C4_OperandsConsumed ==
    [][\A t \in Threads : Returns(t) =>
          Operands(frame[t]) \cap live' = {}]_vars

\* C4 as amended: the operands are borrowed. Once a method has returned,
\* every operand wrapper and every other wrapper the caller had is still
\* available, and on success the caller has one more wrapper, a new Point
\* distinct from all of them that holds the handle the chip returned.
C4_OperandsBorrowed ==
    [][\A t \in Threads : Returns(t) =>
          /\ Operands(frame[t]) \subseteq live'
          /\ live \subseteq live'
          /\ last'.ret.ok =>
                /\ live' \ live = {<<"point", last'.newId>>}
                /\ points'[last'.newId].inner = last'.chipRes.handle
          /\ ~last'.ret.ok => live' = live]_vars

\* One Point has been the receiver of two methods that both returned a
\* Point, and it is still available.
C4_Witness ==
    \E i, j \in DOMAIN origin :
        /\ i < j
        /\ origin[i].method \in {"Point.add", "Point.double", "Point.mul"}
        /\ origin[j].method \in {"Point.add", "Point.double", "Point.mul"}
        /\ origin[i].self = origin[j].self
        /\ <<"point", origin[i].self>> \in live

\* C5: no operation changes the inner handle of an existing Scalar, Point
\* or FixedPoint wrapper, on success or on failure; an operation adds at
\* most the Point it returns, and none when it fails.
C5_WrappersImmutable ==
    [][/\ scalars' = scalars
       /\ fixedPoints' = fixedPoints
       /\ \A i \in DOMAIN points : i \in DOMAIN points' /\ points'[i] = points[i]
       /\ Len(points') \in {Len(points), Len(points) + 1}
       /\ Len(points') = Len(points) + 1 =>
             \E t \in Threads : Returns(t) /\ last'.ret.ok
       /\ (\E t \in Threads : Returns(t) /\ ~last'.ret.ok) =>
             points' = points]_vars

\* A method has failed after others added Points.
C5_Witness ==
    /\ ~last.ret.ok
    /\ last.issued = 1
    /\ Len(points) > 2

\* C6: at most one instruction call is in progress on a layouter instance,
\* the call that holds it; and a step changes a layouter only when it is
\* the return of the call in progress on that layouter, so a call on one
\* layouter never changes another.
C6_ExclusiveLayouter ==
    /\ [](\A l \in Layouters :
             /\ Cardinality({t \in Threads : pc[t] = "inChip" /\ frame[t].lay = l}) <= 1
             /\ \A t \in Threads :
                   (pc[t] # "idle" /\ frame[t].lay = l) => owner[l] = t)
    /\ [][\A l \in Layouters : layouter'[l] # layouter[l] =>
             \E t \in Threads :
                 /\ pc[t] = "inChip"
                 /\ pc'[t] # "inChip"
                 /\ frame[t].lay = l]_vars

\* Two instruction calls are in progress at once, each on the layouter its
\* thread holds.
C6_Witness ==
    /\ \A t \in Threads : pc[t] = "inChip"
    /\ frame[1].lay # frame[2].lay
    /\ \A t \in Threads : owner[frame[t].lay] = t

\* C8: every operand of a running method carries the chip of the method's
\* layouter, so no instruction call receives handles of two chips; every
\* Point a method returned carries the chip of the operands it came from;
\* and no method returns an error of a kind the chips do not produce.
C8_OneChipPerCall ==
    /\ \A t \in Threads : pc[t] # "idle" =>
          \A ref \in Operands(frame[t]) :
              Wrapper(ref).chip = layouter[frame[t].lay].chip
    /\ \A i \in DOMAIN points : origin[i].method # "ctor" =>
          \A ref \in Operands(origin[i]) : Wrapper(ref).chip = points[i].chip
    /\ last.ret.err \in Errors \cup {"none"}

\* A chipB addition of two Points is in progress while chipA wrappers of the
\* same curve are available.
C8_Witness ==
    /\ \E t \in Threads :
          /\ pc[t] = "inChip"
          /\ frame[t].method = "Point.add"
          /\ frame[t].self # frame[t].arg
          /\ points[frame[t].self].chip = "chipB"
    /\ \E i \in DOMAIN points : points[i].chip = "chipA" /\ <<"point", i>> \in live

\* C9: a Point returned by double on P and a Point returned by add on P and
\* P resolve to the same coordinates.
C9_DoubleIsAddSelf ==
    \A i, j \in DOMAIN points :
        (/\ origin[i].method = "Point.double"
         /\ origin[j].method = "Point.add"
         /\ origin[j].self = origin[i].self
         /\ origin[j].arg = origin[i].self)
        => Resolve(points[i]) = Resolve(points[j])

\* Both double(P) and add(P, P) have succeeded for a P that is not the
\* identity.
C9_Witness ==
    \E i, j \in DOMAIN points :
        /\ origin[i].method = "Point.double"
        /\ origin[j].method = "Point.add"
        /\ origin[j].self = origin[i].self
        /\ origin[j].arg = origin[i].self
        /\ Resolve(points[origin[i].self]) # 0

====
